---- MODULE Spec2Model ----
(***************************************************************************)
(* The ball-on-a-track scene of src/src/scenes/ThreePortfolio.tsx.         *)
(*                                                                         *)
(* The file holds two versions of the ThreePortfolio component: the first  *)
(* (lines 1-173) has no controls and advances the ball by a fixed 0.001    *)
(* per frame; the second (lines 174-479) adds Start/Stop, Forward/Backward *)
(* and speed controls.  `component` says which of the two is on the page.  *)
(*                                                                         *)
(* Numbers.  Every number the program adds to progress is a multiple of    *)
(* the slider's step, 0.0001 (speeds 0.0001 .. 0.005, the first version's  *)
(* 0.001, the look-ahead 0.01), so progress is kept as an exact count of   *)
(* such ticks: 1.0 is 10000 ticks.  The rounding of IEEE doubles is not    *)
(* modelled.                                                               *)
(*                                                                         *)
(* Animation-frame handles.  requestAnimationFrame returns a handle that   *)
(* differs from every handle still pending; the program only stores the    *)
(* handle and passes it to cancelAnimationFrame, so the model hands out    *)
(* the smallest handle not pending.                                        *)
(*                                                                         *)
(* React.  The three handlers are discrete-event handlers: React applies   *)
(* the state update they enqueue before the browser runs anything else,    *)
(* so a handler and the re-render it causes are one step.                  *)
(***************************************************************************)
EXTENDS Integers, FiniteSets

VARIABLES
    component,       \* "first" | "controls": which version is on the page
    mounted,         \* the mount effect has run and its cleanup has not
    sceneRef,        \* sceneRef.current
    pending,         \* handles of the animation-frame callbacks not yet run
    speedRef,        \* speedRef.current, in ticks
    isPlayingRef,    \* isPlayingRef.current
    directionRef,    \* directionRef.current
    controlState     \* the React state the controls render from

vars == <<component, mounted, sceneRef, pending, speedRef, isPlayingRef,
          directionRef, controlState>>

-----------------------------------------------------------------------------
(* Program constants, in ticks of 0.0001 *)

\* progress 1.0, the end of the closed curve's parameter range
ONE == 10000
\* the first version's fixed increment, 0.001
FirstSpeed == 10
\* useRef(0.001) / useState({speed: 0.001, ...})
InitSpeed == 10
\* the slider's min, and the floor of Slower
MinSpeed == 1
\* the slider's max, and the ceiling of Faster
MaxSpeed == 50
\* the slider's step, and the decrement/increment of Slower/Faster
SpeedStep == 1
\* the look-ahead of the point the ball is turned toward, 0.01
LookAheadStep == 100

(* Bounds of the exploration *)

\* Slower and Faster are explored up to this many steps away from the
\* positions of the slider that are tried
MaxDrift == 1
\* animation-frame callbacks that may be pending when the effect (re-)runs
MaxLoops == 2

-----------------------------------------------------------------------------
(* Helpers *)

\* JavaScript's %: the remainder takes the sign of the dividend
JsRem(a, n) == IF a >= 0 THEN a % n ELSE 0 - ((0 - a) % n)

\* the mathematical residue of a modulo n, in 0 .. n-1
Mod(a, n) == ((a % n) + n) % n

Max(a, b) == IF a >= b THEN a ELSE b
Min(a, b) == IF a <= b THEN a ELSE b

\* sceneRef.current before the effect has run; -1 marks a field not yet set,
\* animationFrameId 0 is `undefined`
NoScene == [progress |-> -1, animationFrameId |-> 0, ballAt |-> -1, lookAt |-> -1]

\* the values the range input can deliver that the model tries: its two ends
SliderInputs == {MinSpeed, MaxSpeed}

Directions == {1, -1}

\* the speeds within MaxDrift steps of a slider position that is tried
Explored(speed) ==
    \E stop \in SliderInputs :
        /\ speed - stop <= MaxDrift * SpeedStep
        /\ stop - speed <= MaxDrift * SpeedStep

\* requestAnimationFrame: a handle none of the pending callbacks has
RequestAnimationFrame(pend) ==
    CHOOSE h \in 1..(Cardinality(pend) + 1) : h \notin pend

-----------------------------------------------------------------------------
(* The motion model *)

\* first version, line 128: (progress + 0.001) % 1
AdvanceFirst(progress) == JsRem(progress + FirstSpeed, ONE)

\* first version, line 133: (progress + 0.01) % 1
LookAheadFirst(progress) == JsRem(progress + LookAheadStep, ONE)

\* a variant without the wrap-around of lines 352-353
AdvanceProgressNoWrap(progress, speed, direction) ==
    progress + (speed * direction)

\* a variant that stops at the seam instead of jumping across it
AdvanceProgressClamp(progress, speed, direction) ==
    LET newProgress == progress + (speed * direction) IN
    IF newProgress > ONE THEN ONE
    ELSE IF newProgress < 0 THEN 0
    ELSE newProgress

\* second version, lines 349-353
AdvanceProgress(progress, speed, direction) ==
    LET newProgress == progress + (speed * direction) IN
    IF newProgress > ONE THEN 0
    ELSE IF newProgress < 0 THEN ONE
    ELSE newProgress

\* a variant without the "+ 1" that keeps the dividend of % non-negative
LookAheadNoBias(newProgress, direction) ==
    JsRem(newProgress + (LookAheadStep * direction), ONE)

\* second version, line 361: (newProgress + 0.01 * direction + 1) % 1
LookAhead(newProgress, direction) ==
    JsRem(newProgress + (LookAheadStep * direction) + ONE, ONE)

\* animate of the first version (lines 122-139): the scene it leaves
AnimateFirst(scene) ==
    LET newProgress == AdvanceFirst(scene.progress) IN
    [scene EXCEPT !.progress = newProgress,
                  !.ballAt = newProgress,
                  !.lookAt = LookAheadFirst(newProgress)]

\* the body of `if (isPlayingRef.current) { ... }` (lines 347-363)
MoveBall(scene, speed, direction) ==
    LET newProgress == AdvanceProgress(scene.progress, speed, direction) IN
    [scene EXCEPT !.progress = newProgress,
                  !.ballAt = newProgress,
                  !.lookAt = LookAhead(newProgress, direction)]

\* a variant that moves the ball whether or not playback is on
AnimateControlsIgnorePlaying(scene, playing, speed, direction, handle) ==
    [MoveBall(scene, speed, direction) EXCEPT !.animationFrameId = handle]

\* animate of the second version (lines 342-368): the scene it leaves, with
\* the handle of the callback it requested
AnimateControls(scene, playing, speed, direction, handle) ==
    LET moved == IF playing THEN MoveBall(scene, speed, direction) ELSE scene
    IN  [moved EXCEPT !.animationFrameId = handle]

-----------------------------------------------------------------------------
Init ==
    /\ component \in {"first", "controls"}
    /\ mounted = FALSE
    /\ sceneRef = NoScene
    /\ pending = {}
    /\ speedRef = InitSpeed
    /\ isPlayingRef = TRUE
    /\ directionRef = 1
    /\ controlState = [speed |-> InitSpeed, isPlaying |-> TRUE, direction |-> 1]

\* what animate leaves behind when it runs to its end with `pend` the
\* callbacks still pending: the scene and the pending set
RunAnimate(scene, pend) ==
    LET handle == RequestAnimationFrame(pend) IN
    /\ sceneRef' = IF component = "first"
                   THEN AnimateFirst(scene)
                   ELSE AnimateControls(scene, isPlayingRef, speedRef,
                                        directionRef, handle)
    /\ pending' = pend \cup {handle}

\* the mount effect (lines 18-160, 201-392): build the scene with the ball
\* at progress 0 and call animate() once
MountEffect ==
    /\ ~mounted
    /\ Cardinality(pending) < MaxLoops
    /\ mounted' = TRUE
    /\ RunAnimate([NoScene EXCEPT !.progress = 0,
                                  !.ballAt = IF component = "first" THEN -1 ELSE 0],
                  pending)
    /\ UNCHANGED <<component, speedRef, isPlayingRef, directionRef,
                   controlState>>

\* the browser runs the pending callback `handle`
AnimationFrame(handle) ==
    /\ handle \in pending
    /\ IF sceneRef = NoScene
       THEN /\ pending' = pending \ {handle}
            /\ UNCHANGED sceneRef
       ELSE RunAnimate(sceneRef, pending \ {handle})
    /\ UNCHANGED <<component, mounted, speedRef, isPlayingRef, directionRef,
                   controlState>>

Frame == \E handle \in pending : AnimationFrame(handle)

\* a variant of the cleanup that cancels nothing (as the first version's)
CancelNothing(scene, pend) == pend

\* cancelAnimationFrame of the stored handle, if any (lines 387-389)
CancelStored(scene, pend) ==
    IF scene.animationFrameId # 0 THEN pend \ {scene.animationFrameId} ELSE pend

\* the effect's cleanup (lines 156-159, 385-391)
Cleanup ==
    /\ mounted
    /\ mounted' = FALSE
    /\ pending' = IF component = "first" THEN pending
                  ELSE CancelStored(sceneRef, pending)
    /\ UNCHANGED <<component, sceneRef, speedRef, isPlayingRef, directionRef,
                   controlState>>

\* handleResize (lines 144-151, 373-380) touches the camera's aspect and the
\* renderer's size only
HandleResize ==
    /\ mounted
    /\ UNCHANGED vars

-----------------------------------------------------------------------------
(* The controls of the second version *)

\* setControlState(prev => ({ ...prev, [field]: value })), applied by React
SetControlState(prev, field, value) == [prev EXCEPT ![field] = value]

\* handleSpeedChange (lines 394-397)
handleSpeedChange(newSpeed) ==
    /\ speedRef' = newSpeed
    /\ controlState' = SetControlState(controlState, "speed", newSpeed)
    /\ UNCHANGED <<component, mounted, sceneRef, pending, isPlayingRef,
                   directionRef>>

\* a variant in which Start/Stop also sends the ball back to the start
handlePlayingChangeRestarts ==
    /\ component = "controls"
    /\ mounted
    /\ isPlayingRef' = ~isPlayingRef
    /\ controlState' = SetControlState(controlState, "isPlaying", isPlayingRef')
    /\ sceneRef' = [sceneRef EXCEPT !.progress = 0]
    /\ UNCHANGED <<component, mounted, pending, speedRef, directionRef>>

\* handlePlayingChange (lines 399-402); the updater reads the ref when React
\* runs it, after the assignment
handlePlayingChange ==
    /\ component = "controls"
    /\ mounted
    /\ isPlayingRef' = ~isPlayingRef
    /\ controlState' = SetControlState(controlState, "isPlaying", isPlayingRef')
    /\ UNCHANGED <<component, mounted, sceneRef, pending, speedRef,
                   directionRef>>

\* a variant that updates the displayed state but forgets the ref
handleDirectionChangeStateOnly(newDirection) ==
    /\ component = "controls"
    /\ mounted
    /\ controlState' = SetControlState(controlState, "direction", newDirection)
    /\ UNCHANGED <<component, mounted, sceneRef, pending, speedRef,
                   isPlayingRef, directionRef>>

\* handleDirectionChange (lines 404-407)
handleDirectionChange(newDirection) ==
    /\ component = "controls"
    /\ mounted
    /\ directionRef' = newDirection
    /\ controlState' = SetControlState(controlState, "direction", newDirection)
    /\ UNCHANGED <<component, mounted, sceneRef, pending, speedRef,
                   isPlayingRef>>

\* the Backward and Forward buttons (lines 426-441)
DirectionButton == \E newDirection \in Directions : handleDirectionChange(newDirection)

\* the range input's onChange (lines 448-456)
SliderChange ==
    /\ component = "controls"
    /\ mounted
    /\ \E value \in SliderInputs : handleSpeedChange(value)

\* a variant of Slower without the floor
SlowerSpeedNoFloor(shown) == shown - SpeedStep

\* what the Slower button passes on (line 460)
SlowerSpeed(shown) == Max(MinSpeed, shown - SpeedStep)

\* what the Faster button passes on (line 466)
FasterSpeed(shown) == Min(MaxSpeed, shown + SpeedStep)

\* the Slower button (lines 459-464)
Slower ==
    /\ component = "controls"
    /\ mounted
    /\ Explored(SlowerSpeed(controlState.speed))
    /\ handleSpeedChange(SlowerSpeed(controlState.speed))

\* the Faster button (lines 465-470)
Faster ==
    /\ component = "controls"
    /\ mounted
    /\ Explored(FasterSpeed(controlState.speed))
    /\ handleSpeedChange(FasterSpeed(controlState.speed))

-----------------------------------------------------------------------------
Next ==
    \/ MountEffect
    \/ Frame
    \/ Cleanup
    \/ HandleResize
    \/ handlePlayingChange
    \/ DirectionButton
    \/ SliderChange
    \/ Slower
    \/ Faster

Spec == Init /\ [][Next]_vars

\* the browser keeps running pending animation-frame callbacks
LiveSpec == Init /\ [][Next]_vars /\ WF_vars(Frame)

-----------------------------------------------------------------------------
(* Vocabulary of the properties *)

Controls == component = "controls"

HasScene == sceneRef # NoScene

\* a step of one of the three ways to set the speed
SpeedEvent == SliderChange \/ Slower \/ Faster

\* a run of animate: an animation frame, or the call at the end of the effect
AnimateStep == Frame \/ MountEffect

\* where the frame about to run would put the ball before wrapping
Target == sceneRef.progress + (speedRef * directionRef)

\* a frame that takes the ball across the seam of the loop
WrapStep ==
    /\ Controls /\ isPlayingRef /\ Frame
    /\ \/ Target > ONE /\ sceneRef'.progress = 0
       \/ Target < 0 /\ sceneRef'.progress = ONE

\* p and q denote the same point of the closed curve
SamePoint(p, q) == Mod(p, ONE) = Mod(q, ONE)

-----------------------------------------------------------------------------
\* C1: in every reachable state of either version, the progress value, and
\* the parameter at which the curve was evaluated to place the ball, lie in
\* [0,1].
C1_ProgressInRange ==
    HasScene =>
        /\ sceneRef.progress \in 0..ONE
        /\ sceneRef.ballAt \in 0..ONE

\* the ball has just crossed the seam backwards and sits at progress 1
C1_Witness ==
    /\ Controls /\ mounted
    /\ sceneRef.progress = ONE
    /\ sceneRef.lookAt = ONE - LookAheadStep

\* C2 (as claimed): every playing frame moves progress by exactly
\* speed*direction modulo 1.
C2_ExactStep ==
    [][(Controls /\ isPlayingRef /\ Frame) =>
          SamePoint(sceneRef'.progress, Target)]_vars

\* C3: while playback is stopped, frames (and every other step short of
\* rebuilding the scene) leave progress and the ball's parameter unchanged,
\* so the frame after Start continues from the progress held at Stop; each
\* frame still requests the next one.
C3_StoppedHolds ==
    [][/\ (Controls /\ ~isPlayingRef /\ ~MountEffect) =>
             /\ sceneRef'.progress = sceneRef.progress
             /\ sceneRef'.ballAt = sceneRef.ballAt
             /\ Frame => /\ pending' # {}
                         /\ sceneRef'.animationFrameId \in pending'
       /\ (Controls /\ isPlayingRef /\ Frame) =>
             sceneRef'.progress =
                AdvanceProgress(sceneRef.progress, speedRef, directionRef)]_vars

\* playback is stopped in the middle of a lap
C3_Witness ==
    /\ Controls /\ mounted /\ ~isPlayingRef
    /\ sceneRef.progress = 3 * InitSpeed
    /\ pending # {}

\* C4: on every run of animate while playing, the parameter the ball is
\* turned toward lies in [0,1) and is (new progress + 0.01*direction) mod 1.
C4_LookAhead ==
    [][(Controls /\ isPlayingRef /\ AnimateStep) =>
          /\ sceneRef'.lookAt \in 0..(ONE - 1)
          /\ sceneRef'.lookAt =
                Mod(sceneRef'.progress + (LookAheadStep * directionRef), ONE)]_vars

\* going backward, the ball is at progress 0 and looks across the seam
C4_Witness ==
    /\ Controls /\ mounted
    /\ sceneRef.progress = 0
    /\ sceneRef.lookAt = ONE - LookAheadStep

\* C5: in the version with controls at most one animation-frame callback is
\* pending, it is the one whose handle is stored, and after the cleanup none
\* is pending and no frame runs until the effect runs again.
C5_SingleCallback ==
    /\ [](Controls =>
            /\ Cardinality(pending) <= 1
            /\ pending \subseteq {sceneRef.animationFrameId}
            /\ ~mounted => pending = {})
    /\ [][(Controls /\ ~mounted) => ~Frame]_vars

\* the cleanup has run after some frames
C5_Witness ==
    /\ Controls /\ ~mounted
    /\ sceneRef.progress = 2 * InitSpeed
    /\ sceneRef.animationFrameId # 0

\* C6: if the component stays mounted and playing and speed and direction
\* are eventually left alone, the ball crosses the seam again and again.
C6_KeepsLooping ==
    (/\ <>[](Controls /\ mounted /\ isPlayingRef)
     /\ <>[][speedRef' = speedRef /\ directionRef' = directionRef]_vars)
        => []<><<WrapStep>>_vars

\* the ball has crossed the seam forwards at the highest speed
C6_Witness ==
    /\ Controls /\ mounted /\ isPlayingRef
    /\ speedRef = MaxSpeed /\ directionRef = 1
    /\ sceneRef.progress = 0
    /\ sceneRef.lookAt = LookAheadStep

\* the clauses of C7 about the four handlers
HandlersKeepToTheirSetting ==
    /\ SpeedEvent =>
          /\ UNCHANGED <<isPlayingRef, directionRef, sceneRef, pending>>
          /\ controlState' = [controlState EXCEPT !.speed = controlState'.speed]
    /\ handlePlayingChange =>
          /\ UNCHANGED <<speedRef, directionRef, sceneRef, pending>>
          /\ controlState' =
                [controlState EXCEPT !.isPlaying = controlState'.isPlaying]
    /\ DirectionButton =>
          /\ UNCHANGED <<speedRef, isPlayingRef, sceneRef, pending>>
          /\ controlState' =
                [controlState EXCEPT !.direction = controlState'.direction]
    /\ HandleResize => UNCHANGED <<sceneRef, speedRef, isPlayingRef, directionRef>>

\* C7 (as claimed): each handler changes only its own setting, and progress
\* changes only inside an animation frame executed while playing.
C7_OnlyFramesMove ==
    [][Controls =>
          /\ HandlersKeepToTheirSetting
          /\ (HasScene /\ sceneRef'.progress # sceneRef.progress)
                => (isPlayingRef /\ Frame)]_vars

\* C7 (amended): each handler changes only its own setting, and progress
\* changes only inside a frame executed while playing or when the mount
\* effect runs again and rebuilds the scene.
C7_OnlyFramesOrMountMove ==
    [][Controls =>
          /\ HandlersKeepToTheirSetting
          /\ (HasScene /\ sceneRef'.progress # sceneRef.progress)
                => ((isPlayingRef /\ Frame) \/ MountEffect)]_vars

\* every control has been used and the ball has moved
C7_Witness ==
    /\ Controls /\ mounted
    /\ speedRef = MaxSpeed - SpeedStep
    /\ directionRef = -1
    /\ ~isPlayingRef
    /\ sceneRef.progress > 0

\* C8: the speed the loop uses stays within [0.0001, 0.005]; Slower at the
\* floor and Faster at the ceiling leave it unchanged.
C8_SpeedInRange ==
    /\ [](speedRef \in MinSpeed..MaxSpeed)
    /\ [][/\ (Slower /\ speedRef = MinSpeed) => speedRef' = MinSpeed
          /\ (Faster /\ speedRef = MaxSpeed) => speedRef' = MaxSpeed]_vars

\* the speed is at the floor, where Slower is clamped, and frames have run
C8_Witness ==
    /\ Controls /\ mounted
    /\ speedRef = MinSpeed
    /\ SlowerSpeed(controlState.speed) = speedRef
    /\ sceneRef.progress = InitSpeed + (2 * MinSpeed)

\* C9: the displayed control state equals the refs the loop reads.
C9_StateMirrorsRefs ==
    /\ controlState.speed = speedRef
    /\ controlState.isPlaying = isPlayingRef
    /\ controlState.direction = directionRef

\* all three settings differ from their initial values
C9_Witness ==
    /\ controlState.speed = MinSpeed + SpeedStep
    /\ controlState.isPlaying = FALSE
    /\ controlState.direction = -1
    /\ sceneRef.progress > 0

\* C10 (as claimed): from every reachable progress and for every settable
\* speed, a frame forward then a frame backward (or backward then forward)
\* returns to the same point of the loop.
C10_Retraces ==
    (Controls /\ HasScene) =>
        \A speed \in MinSpeed..MaxSpeed :
            /\ SamePoint(AdvanceProgress(AdvanceProgress(sceneRef.progress, speed, 1),
                                         speed, -1),
                         sceneRef.progress)
            /\ SamePoint(AdvanceProgress(AdvanceProgress(sceneRef.progress, speed, -1),
                                         speed, 1),
                         sceneRef.progress)


====
